---- MODULE Spec2Model ----
(***************************************************************************)
(* Model of scripts/process_ipad_screenshot.py: process_screenshot         *)
(* (decode, rotate 90 degrees counter-clockwise, crop, encode, write) and  *)
(* the command-line entry point main.                                      *)
(*                                                                         *)
(* Strings the program inspects (paths, command-line tokens) are sequences *)
(* of one-character strings, so that Path.suffix, str.lower and int() are  *)
(* computed character by character.                                        *)
(***************************************************************************)
EXTENDS Integers, Sequences, FiniteSets, TLC

(* ------------------------------ bounds --------------------------------- *)
\* Source images are MaxDim x MaxDim at most (plus the iPad framebuffer).
MaxDim == 4
\* Explicit crop margins range over 0..MaxCrop (plus the defaults).
MaxCrop == 2
\* Number of command-line arguments after the program name.
MaxArgs == 5

(* ------------------------- program constants --------------------------- *)
CROP_TOP == 130
CROP_BOTTOM == 42
DefaultQuality == 90

(* ------------------------------ strings -------------------------------- *)
Upper == <<"A","B","C","D","E","F","G","H","I","J","K","L","M",
           "N","O","P","Q","R","S","T","U","V","W","X","Y","Z">>
Lowercase == <<"a","b","c","d","e","f","g","h","i","j","k","l","m",
               "n","o","p","q","r","s","t","u","v","w","x","y","z">>
Digits == <<"0","1","2","3","4","5","6","7","8","9">>

\* str.lower() on one character.
LowerChar(c) ==
    IF \E k \in 1..Len(Upper) : Upper[k] = c
    THEN Lowercase[CHOOSE k \in 1..Len(Upper) : Upper[k] = c]
    ELSE c

\* str.lower()
Lower(s) == [k \in 1..Len(s) |-> LowerChar(s[k])]

\* Index of the last occurrence of character c in s, 0 when there is none.
RFind(s, c) ==
    IF \E k \in 1..Len(s) : s[k] = c
    THEN CHOOSE k \in 1..Len(s) : s[k] = c /\ \A m \in (k+1)..Len(s) : s[m] # c
    ELSE 0

\* PurePath.name: the final path component.
PathName(p) == SubSeq(p, RFind(p, "/") + 1, Len(p))

\* PurePath.suffix: the final component from its last dot on, or the empty
\* string when the dot is missing, leads the name or ends it.
Suffix(p) ==
    LET name == PathName(p)
        d    == RFind(name, ".")
    IN  IF 1 < d /\ d < Len(name) THEN SubSeq(name, d, Len(name)) ELSE <<>>

IsDigit(c) == \E k \in 1..Len(Digits) : Digits[k] = c
DigitVal(c) == (CHOOSE k \in 1..Len(Digits) : Digits[k] = c) - 1

RECURSIVE DigitsValue(_)
DigitsValue(s) ==
    IF s = <<>> THEN 0
    ELSE 10 * DigitsValue(SubSeq(s, 1, Len(s) - 1)) + DigitVal(s[Len(s)])

\* int(token): an optional sign followed by one or more decimal digits;
\* anything else raises ValueError (ok = FALSE).
ParseInt(s) ==
    LET signed == s # <<>> /\ s[1] \in {"+", "-"}
        body   == IF signed THEN Tail(s) ELSE s
        ok     == body # <<>> /\ \A k \in 1..Len(body) : IsDigit(body[k])
    IN  [ok  |-> ok,
         val |-> IF ~ok THEN 0
                 ELSE IF signed /\ s[1] = "-" THEN 0 - DigitsValue(body)
                 ELSE DigitsValue(body)]

JPG  == <<".","j","p","g">>
JPEG == <<".","j","p","e","g">>

\* Line 67: output.suffix.lower() in ['.jpg', '.jpeg']
IsLossyPath(p) == Lower(Suffix(p)) \in {JPG, JPEG}

(* ------------------------------- images -------------------------------- *)
\* Color models a decoded PNG can carry, and which of them carry alpha.
Modes == {"RGB", "RGBA", "L", "LA"}
AlphaModes == {"RGBA", "LA"}
\* Color models the JPEG encoder accepts (of those in Modes).
JpegModes == {"RGB", "L"}

\* The framebuffer size of the 13-inch iPad at 2x scale (width, height).
IPadSize == <<2048, 2732>>

\* An image: its size (width, height), its color model, and the geometric
\* operations applied since decoding (from which every pixel's source
\* coordinate follows, see SourcePixel).
Image(size, mode) == [kind |-> "image", size |-> size, mode |-> mode, ops |-> <<>>]
\* The states of the input file that are not a decodable image.
NotAFile(kind) == [kind |-> kind, size |-> <<0, 0>>, mode |-> "", ops |-> <<>>]
NoImage == NotAFile("none")

Op(name, a, b) == [op |-> name, a |-> a, b |-> b]

\* Line 58: where pixel (x, y) of img.rotate(90, expand=True) comes from in
\* an image of width w: a quarter turn counter-clockwise.
RotatedFromCW(w, x, y) == <<y, x>>
RotatedFrom(w, x, y) == <<w - 1 - y, x>>

\* Line 58: img.rotate(90, expand=True); the bounding box expands, so the
\* size is transposed.
Rotate90Expand(im) ==
    [im EXCEPT !.size = <<im.size[2], im.size[1]>>,
               !.ops  = Append(im.ops, Op("rotate90", im.size[1], 0))]

\* Line 62: crop_box = (0, crop_top, width, height - crop_bottom)
CropBoxNoBottom(im, top, bottom) == <<0, top, im.size[1], im.size[2]>>
CropBox(im, top, bottom) == <<0, top, im.size[1], im.size[2] - bottom>>

Max0(n) == IF n < 0 THEN 0 ELSE n

\* Line 63: Image.crop(box) with box = (left, upper, right, lower): no
\* scaling; an extent that is not positive gives an empty image.
Crop(im, box) ==
    [im EXCEPT !.size = <<Max0(box[3] - box[1]), Max0(box[4] - box[2])>>,
               !.ops  = Append(im.ops, Op("crop", box[1], box[2]))]

\* Line 70: Image.convert(mode): same size and geometry, new color model.
Convert(im, mode) == [im EXCEPT !.mode = mode]

RECURSIVE TraceBack(_, _, _)
\* The coordinate in the decoded source image of pixel (x, y) of an image
\* that went through the operations ops.
TraceBack(ops, x, y) ==
    IF ops = <<>> THEN <<x, y>>
    ELSE LET o    == ops[Len(ops)]
             rest == SubSeq(ops, 1, Len(ops) - 1)
         IN  IF o.op = "rotate90"
             THEN LET p == RotatedFrom(o.a, x, y) IN TraceBack(rest, p[1], p[2])
             ELSE TraceBack(rest, x + o.a, y + o.b)

SourcePixel(im, x, y) == TraceBack(im.ops, x, y)

IsEmpty(im) == im.size[1] = 0 \/ im.size[2] = 0

(* ------------------------------- state --------------------------------- *)
\* Invocations of process_screenshot that are compared with each other.
\* Run 1 is the invocation of Spec, PixelSpec and MainSpec; PairSpec runs 1
\* and 2 on the same input, each against its own copy of the output file.
Runs == {1, 2}

VARIABLES
    argv,         \* sys.argv (main only), argv[1] the program name
    input_path,   \* the input path
    output_path,  \* the output path
    crop_top,     \* the crop margins, in rotated coordinates
    crop_bottom,
    inFile,       \* what the file system holds at input_path
    mpc,          \* main: the next statement ("none": main is not running)
    console,      \* main: what was printed last
    exitCode,     \* main: the exit status, -1 while running
    pc,           \* per run: the next statement of process_screenshot
    quality,      \* per run: the quality argument
    img,          \* per run: img / img_rotated / cropped
    saveCall,     \* per run: the arguments of the call of Image.save
    outFile,      \* per run: what the file system holds at output_path
    result,       \* per run: the returned size or the raised exception
    ioLog         \* per run: the kinds of file I/O done so far

vars == <<argv, input_path, output_path, crop_top, crop_bottom, inFile, mpc,
          console, exitCode, pc, quality, img, saveCall, outFile, result, ioLog>>

inputs == <<argv, input_path, output_path, crop_top, crop_bottom, inFile>>
mainVars == <<mpc, console, exitCode>>

NoCall == [made |-> FALSE, format |-> "", image |-> NoImage,
           quality |-> <<>>, optimize |-> FALSE]
\* Image.save(path, format, quality=..., optimize=True); quality is <<>> when
\* the keyword is not passed.
SaveArgs(format, image, q) ==
    [made |-> TRUE, format |-> format, image |-> image,
     quality |-> q, optimize |-> TRUE]

\* The output file: absent, old (left by an earlier invocation), partial
\* (opened for writing and truncated, not completed) or written.
File(state, content) == [state |-> state, content |-> content]

NoResult == [status |-> "none", size |-> <<0, 0>>, exc |-> ""]
Returned(size) == [status |-> "returned", size |-> size, exc |-> ""]
Raised(exc) == [status |-> "raised", size |-> <<0, 0>>, exc |-> exc]

(* --------------------------- process_screenshot ------------------------ *)
\* Line 55: img = Image.open(input_path)
Open(i) ==
    /\ pc[i] = "open"
    /\ ioLog' = [ioLog EXCEPT ![i] = @ \cup {"decode"}]
    /\ IF inFile.kind = "image"
       THEN /\ img' = [img EXCEPT ![i] = inFile]
            /\ pc' = [pc EXCEPT ![i] = "rotate"]
            /\ UNCHANGED result
       ELSE /\ result' = [result EXCEPT ![i] =
                   Raised(IF inFile.kind = "missing" THEN "FileNotFoundError"
                          ELSE "UnidentifiedImageError")]
            /\ pc' = [pc EXCEPT ![i] = "raised"]
            /\ UNCHANGED img
    /\ UNCHANGED <<inputs, mainVars, quality, saveCall, outFile>>

\* Line 58: img_rotated = img.rotate(90, expand=True)
Rotate(i) ==
    /\ pc[i] = "rotate"
    /\ img' = [img EXCEPT ![i] = Rotate90Expand(@)]
    /\ pc' = [pc EXCEPT ![i] = "crop"]
    /\ UNCHANGED <<inputs, mainVars, quality, saveCall, outFile, result, ioLog>>

\* Lines 61-63: the crop. No margin is checked against the image. A box
\* whose lower edge lies above its upper edge makes Image.crop raise
\* ValueError or return an empty image, depending on the Pillow release.
CropOk(i) ==
    /\ pc[i] = "crop"
    /\ img' = [img EXCEPT ![i] = Crop(@, CropBox(@, crop_top, crop_bottom))]
    /\ pc' = [pc EXCEPT ![i] = "save"]
    /\ UNCHANGED <<inputs, mainVars, quality, saveCall, outFile, result, ioLog>>

CropRaises(i) ==
    /\ pc[i] = "crop"
    /\ LET box == CropBox(img[i], crop_top, crop_bottom)
       IN  box[3] < box[1] \/ box[4] < box[2]
    /\ result' = [result EXCEPT ![i] = Raised("ValueError")]
    /\ pc' = [pc EXCEPT ![i] = "raised"]
    /\ UNCHANGED <<inputs, mainVars, quality, img, saveCall, outFile, ioLog>>

\* Lines 66-70: the image handed to the encoder.
EncoderImage(im, path) ==
    IF IsLossyPath(path) /\ im.mode = "RGBA" THEN Convert(im, "RGB") ELSE im

\* Lines 67-73: the call of Image.save.
SaveCallPngWithQuality(im, path, q) ==
    IF IsLossyPath(path)
    THEN SaveArgs("JPEG", EncoderImage(im, path), <<q>>)
    ELSE SaveArgs("PNG", EncoderImage(im, path), <<q>>)
SaveCallCaseSensitive(im, path, q) ==
    IF Suffix(path) \in {JPG, JPEG}
    THEN SaveArgs("JPEG", EncoderImage(im, path), <<q>>)
    ELSE SaveArgs("PNG", EncoderImage(im, path), <<>>)
SaveCall(im, path, q) ==
    IF IsLossyPath(path)
    THEN SaveArgs("JPEG", EncoderImage(im, path), <<q>>)
    ELSE SaveArgs("PNG", EncoderImage(im, path), <<>>)

\* The encoder rejects a color model it cannot store. It may reject an
\* empty image and, for JPEG, a quality outside 1..100 (codec-specific).
MustReject(call) == call.format = "JPEG" /\ call.image.mode \notin JpegModes
MayReject(call) ==
    \/ MustReject(call)
    \/ IsEmpty(call.image)
    \/ call.format = "JPEG" /\ (call.quality[1] < 1 \/ call.quality[1] > 100)

\* What a failed save leaves at the output path once it was opened for
\* writing: a file that existed is truncated or partly overwritten; a file
\* the call created is left partial or removed again.
AfterFailedWrite(f) ==
    IF f.state = "absent" THEN {File("absent", NoCall), File("partial", NoCall)}
    ELSE {File("partial", NoCall)}

\* Lines 71 / 73, the destination cannot be opened for writing (permissions,
\* missing parent directory): OSError, nothing written.
SaveOpenFails(i) ==
    /\ pc[i] = "save"
    /\ saveCall' = [saveCall EXCEPT ![i] = SaveCall(img[i], output_path, quality[i])]
    /\ img' = [img EXCEPT ![i] = saveCall'[i].image]
    /\ ioLog' = [ioLog EXCEPT ![i] = @ \cup {"save"}]
    /\ result' = [result EXCEPT ![i] = Raised("OSError")]
    /\ pc' = [pc EXCEPT ![i] = "raised"]
    /\ UNCHANGED <<inputs, mainVars, quality, outFile>>

\* Lines 71 / 73, the destination is open for writing and the encoder
\* rejects the image or its parameters.
SaveEncoderRejects(i) ==
    /\ pc[i] = "save"
    /\ saveCall' = [saveCall EXCEPT ![i] = SaveCall(img[i], output_path, quality[i])]
    /\ MayReject(saveCall'[i])
    /\ img' = [img EXCEPT ![i] = saveCall'[i].image]
    /\ ioLog' = [ioLog EXCEPT ![i] = @ \cup {"save", "write"}]
    /\ \E f \in AfterFailedWrite(outFile[i]) : outFile' = [outFile EXCEPT ![i] = f]
    /\ result' = [result EXCEPT ![i] = Raised("EncoderError")]
    /\ pc' = [pc EXCEPT ![i] = "raised"]
    /\ UNCHANGED <<inputs, mainVars, quality>>

\* Lines 71 / 73, writing the encoded bytes fails part-way (disk full, I/O
\* error).
SaveWriteFails(i) ==
    /\ pc[i] = "save"
    /\ saveCall' = [saveCall EXCEPT ![i] = SaveCall(img[i], output_path, quality[i])]
    /\ ~MustReject(saveCall'[i])
    /\ img' = [img EXCEPT ![i] = saveCall'[i].image]
    /\ ioLog' = [ioLog EXCEPT ![i] = @ \cup {"save", "write"}]
    /\ \E f \in AfterFailedWrite(outFile[i]) : outFile' = [outFile EXCEPT ![i] = f]
    /\ result' = [result EXCEPT ![i] = Raised("OSError")]
    /\ pc' = [pc EXCEPT ![i] = "raised"]
    /\ UNCHANGED <<inputs, mainVars, quality>>

\* Lines 71 / 73, the save completes: the file holds the encoding of the
\* arguments of the call.
SaveOk(i) ==
    /\ pc[i] = "save"
    /\ saveCall' = [saveCall EXCEPT ![i] = SaveCall(img[i], output_path, quality[i])]
    /\ ~MustReject(saveCall'[i])
    /\ img' = [img EXCEPT ![i] = saveCall'[i].image]
    /\ ioLog' = [ioLog EXCEPT ![i] = @ \cup {"save", "write"}]
    /\ outFile' = [outFile EXCEPT ![i] = File("written", saveCall'[i])]
    /\ pc' = [pc EXCEPT ![i] = "return"]
    /\ UNCHANGED <<inputs, mainVars, quality, result>>

\* Line 75: return cropped.size
Return(i) ==
    /\ pc[i] = "return"
    /\ result' = [result EXCEPT ![i] = Returned(img[i].size)]
    /\ pc' = [pc EXCEPT ![i] = "returned"]
    /\ UNCHANGED <<inputs, mainVars, quality, img, saveCall, outFile, ioLog>>

(* -------------------------------- main ---------------------------------- *)
Program     == <<"s",".","p","y">>
FlagQuality == <<"-","-","q","u","a","l","i","t","y">>
InPath      == <<"i",".","p","n","g">>
OutPathJpg  == <<"o",".","j","p","g">>
Int80       == <<"8","0">>
Int7        == <<"7">>

Nothing == [kind |-> "none", path |-> <<>>, size |-> <<0, 0>>, exc |-> ""]
Usage == [Nothing EXCEPT !.kind = "usage"]
NotFound(path) == [Nothing EXCEPT !.kind = "not_found", !.path = path]
Processed(size, path) == [Nothing EXCEPT !.kind = "processed", !.size = size, !.path = path]
Traceback(exc) == [Nothing EXCEPT !.kind = "traceback", !.exc = exc]

RECURSIVE QualityLoop(_, _, _)
\* Lines 88-90: the loop over enumerate(sys.argv), from (1-based) index k
\* with quality q so far; ok = FALSE when int() raises ValueError.
QualityLoop(av, k, q) ==
    IF k > Len(av) THEN [ok |-> TRUE, val |-> q]
    ELSE IF av[k] = FlagQuality /\ k + 1 <= Len(av)
         THEN LET r == ParseInt(av[k + 1])
              IN  IF r.ok THEN QualityLoop(av, k + 1, r.val)
                  ELSE [ok |-> FALSE, val |-> q]
         ELSE QualityLoop(av, k + 1, q)

\* Lines 87-90: quality = 90, then the loop.
ParseQualityFirstFlag(av) ==
    IF \E k \in 1..(Len(av) - 1) : av[k] = FlagQuality
    THEN ParseInt(av[(CHOOSE k \in 1..(Len(av) - 1) :
                        av[k] = FlagQuality /\ \A m \in 1..(k - 1) : av[m] # FlagQuality) + 1])
    ELSE [ok |-> TRUE, val |-> DefaultQuality]
ParseQuality(av) == QualityLoop(av, 1, DefaultQuality)

\* Line 79: len(sys.argv) < 3
TooFewArgs(av) == Len(av) < 3

\* Lines 79-84: the usage check, then the two paths.
MainCheckArgs ==
    /\ mpc = "args"
    /\ IF TooFewArgs(argv)
       THEN /\ console' = Usage
            /\ exitCode' = 1
            /\ mpc' = "exit"
            /\ UNCHANGED <<input_path, output_path>>
       ELSE /\ input_path' = argv[2]
            /\ output_path' = argv[3]
            /\ mpc' = "parse"
            /\ UNCHANGED <<console, exitCode>>
    /\ UNCHANGED <<argv, crop_top, crop_bottom, inFile, pc, quality, img,
                   saveCall, outFile, result, ioLog>>

\* Lines 86-90: the optional quality argument; a ValueError of int() is not
\* caught and ends the process with a traceback and status 1.
MainParseQuality ==
    /\ mpc = "parse"
    /\ LET r == ParseQuality(argv)
       IN  IF r.ok
           THEN /\ quality' = [quality EXCEPT ![1] = r.val]
                /\ mpc' = "exists"
                /\ UNCHANGED <<console, exitCode>>
           ELSE /\ console' = Traceback("ValueError")
                /\ exitCode' = 1
                /\ mpc' = "exit"
                /\ UNCHANGED quality
    /\ UNCHANGED <<inputs, pc, img, saveCall, outFile, result, ioLog>>

\* Line 92: Path(input_path).exists()
ExistsAlways(f) == TRUE
Exists(f) == f.kind # "missing"

\* Lines 92-94: the existence check.
MainCheckExists ==
    /\ mpc = "exists"
    /\ ioLog' = [ioLog EXCEPT ![1] = @ \cup {"exists"}]
    /\ IF ~Exists(inFile)
       THEN /\ console' = NotFound(input_path)
            /\ exitCode' = 1
            /\ mpc' = "exit"
       ELSE /\ mpc' = "call"
            /\ UNCHANGED <<console, exitCode>>
    /\ UNCHANGED <<inputs, pc, quality, img, saveCall, outFile, result>>

\* Line 96: process_screenshot(input_path, output_path, quality), the crop
\* margins left at their defaults.
MainCall ==
    /\ mpc = "call"
    /\ pc[1] = "idle"
    /\ pc' = [pc EXCEPT ![1] = "open"]
    /\ mpc' = "print"
    /\ UNCHANGED <<inputs, console, exitCode, quality, img, saveCall, outFile,
                   result, ioLog>>

\* Line 97: the call returned.
MainPrint ==
    /\ mpc = "print"
    /\ pc[1] = "returned"
    /\ console' = Processed(result[1].size, output_path)
    /\ exitCode' = 0
    /\ mpc' = "exit"
    /\ UNCHANGED <<inputs, pc, quality, img, saveCall, outFile, result, ioLog>>

\* Line 96: the call raised; main catches nothing, the interpreter prints
\* the traceback and exits with status 1.
MainUncaught ==
    /\ mpc = "print"
    /\ pc[1] = "raised"
    /\ console' = Traceback(result[1].exc)
    /\ exitCode' = 1
    /\ mpc' = "exit"
    /\ UNCHANGED <<inputs, pc, quality, img, saveCall, outFile, result, ioLog>>

(* --------------------------- initial states ---------------------------- *)
SmallSizes == (1..MaxDim) \X (1..MaxDim)
Images(sizes) == {Image(sz, m) : sz \in sizes, m \in Modes}
Unreadable == {NotAFile("missing"), NotAFile("corrupt")}

\* Non-negative margin pairs (crop_top, crop_bottom), the defaults included.
Margins ==
    {m \in (0..CROP_TOP) \X (0..CROP_BOTTOM) :
        \/ m[1] <= MaxCrop /\ m[2] <= MaxCrop
        \/ m = <<CROP_TOP, CROP_BOTTOM>>}

\* Quality arguments of direct calls: in and out of 1..100.
Qualities == {0, DefaultQuality, 101}

OutPaths ==
    { <<"a",".","j","p","g">>,          \* a.jpg
      <<"a",".","J","P","G">>,          \* a.JPG
      <<"a",".","J","p","e","g">>,      \* a.Jpeg
      <<"a",".","p","n","g">>,          \* a.png
      <<"a",".","P","N","G">>,          \* a.PNG
      <<"a",".","g","i","f">>,          \* a.gif
      <<"a">>,                          \* a
      <<".","j","p","g">>,              \* .jpg  (a hidden file without suffix)
      <<"d",".","j","p","g","/","a">> } \* d.jpg/a

OutFiles == {File("absent", NoCall), File("old", NoCall)}

\* Command lines: the program name, then up to MaxArgs tokens.
Tokens == {InPath, OutPathJpg, FlagQuality, Int80, Int7}
RECURSIVE TokenSeqs(_)
TokenSeqs(n) ==
    IF n = 0 THEN {<<>>}
    ELSE {Append(t, a) : t \in TokenSeqs(n - 1), a \in Tokens}
ArgVectors == UNION {{<<Program>> \o t : t \in TokenSeqs(n)} : n \in 0..MaxArgs}

\* One direct call process_screenshot(input_path, output_path, quality,
\* crop_top, crop_bottom) on an input file drawn from files.
InitCall(files) ==
    /\ argv = <<>>
    /\ input_path = InPath
    /\ output_path \in OutPaths
    /\ \E m \in Margins : crop_top = m[1] /\ crop_bottom = m[2]
    /\ inFile \in files
    /\ mpc = "none"
    /\ console = Nothing
    /\ exitCode = -1
    /\ pc = [i \in Runs |-> IF i = 1 THEN "open" ELSE "idle"]
    /\ \E q \in Qualities : quality = [i \in Runs |-> q]
    /\ img = [i \in Runs |-> NoImage]
    /\ saveCall = [i \in Runs |-> NoCall]
    /\ \E f \in OutFiles : outFile = [i \in Runs |-> f]
    /\ result = [i \in Runs |-> NoResult]
    /\ ioLog = [i \in Runs |-> {}]

Init == InitCall(Unreadable \cup Images(SmallSizes \cup {IPadSize}))

\* The same without the iPad framebuffer, for properties of every pixel.
PixelInit == InitCall(Unreadable \cup Images(SmallSizes))

\* Two calls that differ in the quality argument only.
PairInit ==
    /\ argv = <<>>
    /\ input_path = InPath
    /\ output_path \in OutPaths
    /\ \E m \in Margins : crop_top = m[1] /\ crop_bottom = m[2]
    /\ inFile \in Images({<<MaxDim, 1>>})
    /\ mpc = "none"
    /\ console = Nothing
    /\ exitCode = -1
    /\ pc = [i \in Runs |-> "open"]
    /\ quality \in [Runs -> Qualities]
    /\ img = [i \in Runs |-> NoImage]
    /\ saveCall = [i \in Runs |-> NoCall]
    /\ \E f \in OutFiles : outFile = [i \in Runs |-> f]
    /\ result = [i \in Runs |-> NoResult]
    /\ ioLog = [i \in Runs |-> {}]

\* python process_ipad_screenshot.py <argv[2..]>
MainInit ==
    /\ argv \in ArgVectors
    /\ input_path = <<>>
    /\ output_path = <<>>
    /\ crop_top = CROP_TOP
    /\ crop_bottom = CROP_BOTTOM
    /\ inFile \in Unreadable \cup {Image(IPadSize, "RGBA"), Image(<<1, 1>>, "RGB")}
    /\ mpc = "args"
    /\ console = Nothing
    /\ exitCode = -1
    /\ pc = [i \in Runs |-> "idle"]
    /\ quality = [i \in Runs |-> DefaultQuality]
    /\ img = [i \in Runs |-> NoImage]
    /\ saveCall = [i \in Runs |-> NoCall]
    /\ \E f \in OutFiles : outFile = [i \in Runs |-> f]
    /\ result = [i \in Runs |-> NoResult]
    /\ ioLog = [i \in Runs |-> {}]

(* ---------------------------- specifications --------------------------- *)
Ended(i) == pc[i] \in {"returned", "raised"}

Next ==
    \/ Open(1) \/ Rotate(1) \/ CropOk(1) \/ CropRaises(1)
    \/ SaveOpenFails(1) \/ SaveEncoderRejects(1) \/ SaveWriteFails(1)
    \/ SaveOk(1) \/ Return(1)

\* Run 2 repeats the call once run 1 has ended.
PairNext ==
    \/ Next
    \/ /\ Ended(1)
       /\ \/ Open(2) \/ Rotate(2) \/ CropOk(2) \/ CropRaises(2)
          \/ SaveOpenFails(2) \/ SaveEncoderRejects(2) \/ SaveWriteFails(2)
          \/ SaveOk(2) \/ Return(2)

MainNext ==
    \/ MainCheckArgs \/ MainParseQuality \/ MainCheckExists \/ MainCall
    \/ MainPrint \/ MainUncaught
    \/ Next

Spec == Init /\ [][Next]_vars
PixelSpec == PixelInit /\ [][Next]_vars
PairSpec == PairInit /\ [][PairNext]_vars
MainSpec == MainInit /\ [][MainNext]_vars

(* ------------------------------ properties ----------------------------- *)
SrcW == inFile.size[1]
SrcH == inFile.size[2]
\* The crop has been done and did not raise.
Cropped(i) == pc[i] \in {"save", "return", "returned"}

\* C1: a W x H source is rotated to H x W and, for margins t + b < W, the
\* size returned is (H, W - t - b), whatever the output path and the quality;
\* the iPad framebuffer with the default margins returns (2732, 1876).
C1_ReturnedSize ==
    /\ pc[1] = "crop" => img[1].size = <<SrcH, SrcW>>
    /\ (pc[1] = "returned" /\ crop_top + crop_bottom < SrcW)
          => result[1] = Returned(<<SrcH, SrcW - crop_top - crop_bottom>>)
    /\ (pc[1] = "returned" /\ crop_top = 0 /\ crop_bottom = 0)
          => result[1].size = <<SrcH, SrcW>>
    /\ (pc[1] = "returned" /\ inFile.size = IPadSize
            /\ crop_top = CROP_TOP /\ crop_bottom = CROP_BOTTOM)
          => result[1].size = <<2732, 1876>>

C1_Witness ==
    /\ pc[1] = "returned"
    /\ inFile.size = IPadSize
    /\ crop_top = CROP_TOP /\ crop_bottom = CROP_BOTTOM
    /\ IsLossyPath(output_path)
    /\ quality[1] = 101

\* C2: with crop_top + crop_bottom >= the source width (the rotated height),
\* process_screenshot never gets past the crop: it does not reach the save
\* and returns no size.
C2_DegenerateCropFails ==
    (inFile.kind = "image" /\ crop_top + crop_bottom >= SrcW)
        => /\ ~Cropped(1)
           /\ ~saveCall[1].made
           /\ result[1].status # "returned"

\* C3: for every input color model, the image that save hands to the JPEG
\* encoder (the destination being open) carries no alpha channel.
C3_NoAlphaToJpeg ==
    (saveCall[1].made /\ "write" \in ioLog[1] /\ saveCall[1].format = "JPEG")
        => saveCall[1].image.mode \notin AlphaModes

\* The final component of path p is a non-empty stem followed by ext in any
\* letter case (ext in lower case, a dot followed by letters).
EndsWithExtension(p, ext) ==
    LET name == PathName(p)
        n    == Len(name) - Len(ext)
    IN  /\ n >= 1
        /\ \A j \in 1..Len(ext) : LowerChar(name[n + j]) = ext[j]

\* C4: the format passed to Image.save is JPEG exactly when the output path
\* ends in .jpg or .jpeg in any letter case, and PNG otherwise, whatever the
\* input's color model, the quality and the margins.
C4_FormatFromExtension ==
    saveCall[1].made =>
        saveCall[1].format =
            IF EndsWithExtension(output_path, JPG) \/ EndsWithExtension(output_path, JPEG)
            THEN "JPEG" ELSE "PNG"

C4_Witness ==
    /\ saveCall[1].made
    /\ output_path = <<"a",".","J","P","G">>
    /\ saveCall[1].format = "JPEG"
    /\ inFile.mode = "L"

\* C5: two calls with a lossless output path that differ in quality only
\* pass the same arguments to Image.save and, when both return, leave the
\* same output file and return the same size.
C5_QualityIgnoredForLossless ==
    ~IsLossyPath(output_path) =>
        /\ (saveCall[1].made /\ saveCall[2].made) => saveCall[1] = saveCall[2]
        /\ (pc[1] = "returned" /\ pc[2] = "returned")
              => outFile[1] = outFile[2] /\ result[1] = result[2]

C5_Witness ==
    /\ ~IsLossyPath(output_path)
    /\ pc[1] = "returned" /\ pc[2] = "returned"
    /\ quality[1] = 0 /\ quality[2] = DefaultQuality

\* C6: when process_screenshot ends in an error, no write to the output path
\* has begun and the output file is as it was before the call.
C6_ErrorLeavesOutputUntouched ==
    pc[1] = "raised" =>
        /\ "write" \notin ioLog[1]
        /\ outFile[1] \in OutFiles

\* sys.argv holds at least two tokens after the program name.
HasTwoArgs == Len(argv) >= 3
\* sys.argv names an input and an output path: its first two tokens are
\* neither the flag nor integers.
NamesPaths ==
    /\ HasTwoArgs
    /\ \A k \in 2..3 : argv[k] # FlagQuality /\ ~ParseInt(argv[k]).ok
\* Every --quality token that has a successor is followed by an integer.
FlagValuesAreIntegers ==
    \A k \in 1..(Len(argv) - 1) : argv[k] = FlagQuality => ParseInt(argv[k + 1]).ok
NoImageIO(i) == ioLog[i] \cap {"decode", "save", "write"} = {}

\* C7 as claimed: whenever the input path does not exist, main exits non-zero
\* after printing the error that mentions the path, without decode, encode
\* or write.
C7_MissingInputAsClaimed ==
    (NamesPaths /\ inFile.kind = "missing")
        => /\ NoImageIO(1)
           /\ mpc = "exit" => (exitCode # 0 /\ console = NotFound(argv[2]))

\* C7 as amended: whenever the input path (the first of at least two
\* arguments) does not exist, main never decodes, encodes or writes, and
\* exits with status 1; it prints the error that mentions the path when
\* every --quality value is an integer, and otherwise ends with the
\* ValueError of int() before the existence check.
C7_MissingInput ==
    (HasTwoArgs /\ inFile.kind = "missing")
        => /\ NoImageIO(1)
           /\ pc[1] = "idle"
           /\ mpc = "exit" =>
                 /\ exitCode = 1
                 /\ console = IF FlagValuesAreIntegers THEN NotFound(argv[2])
                              ELSE Traceback("ValueError")
                 /\ ("exists" \in ioLog[1]) = FlagValuesAreIntegers

C7_Witness ==
    /\ NamesPaths /\ inFile.kind = "missing"
    /\ mpc = "exit"
    /\ console = NotFound(InPath)
    /\ \E k \in 1..Len(argv) : argv[k] = FlagQuality

RECURSIVE Positionals(_, _)
\* The number of positional arguments of av from index k on: `--quality` and
\* the token after it are not positional.
Positionals(av, k) ==
    IF k > Len(av) THEN 0
    ELSE IF av[k] = FlagQuality THEN Positionals(av, k + 2)
    ELSE 1 + Positionals(av, k + 1)

\* C8: with fewer than two positional arguments main does no file I/O and
\* exits non-zero after printing the usage text.
C8_UsageOnFewPositionals ==
    Positionals(argv, 2) < 2
        => /\ ioLog[1] = {}
           /\ mpc \notin {"exists", "call", "print"}
           /\ mpc = "exit" => (console = Usage /\ exitCode # 0)

\* The indices of the --quality tokens that have a successor.
Flags == {k \in 1..(Len(argv) - 1) : argv[k] = FlagQuality}
LastFlag == CHOOSE k \in Flags : \A m \in Flags : m <= k

\* C9: the quality process_screenshot is called with is 90 when no --quality
\* token has a successor, and otherwise the integer after the (last) such
\* token; a --quality value that is not an integer ends main with status 1
\* before process_screenshot is called or any file is touched.
C9_QualityFromCommandLine ==
    /\ pc[1] # "idle" =>
          /\ FlagValuesAreIntegers
          /\ quality[1] = IF Flags = {} THEN 90
                          ELSE ParseInt(argv[LastFlag + 1]).val
    /\ (HasTwoArgs /\ ~FlagValuesAreIntegers) =>
          /\ pc[1] = "idle" /\ ioLog[1] = {} /\ outFile[1] \in OutFiles
          /\ mpc = "exit" => exitCode = 1

C9_Witness ==
    /\ pc[1] = "returned"
    /\ Cardinality(Flags) = 1
    /\ argv[Len(argv)] = FlagQuality
    /\ quality[1] = 7

\* C10: for a W x H source and margins t + b < W the cropped image is
\* H x (W - t - b) and its pixel (x, y) is the source pixel
\* (W - 1 - (y + t), x): every source row is kept, and exactly the source
\* columns b .. W - t - 1.
C10_PixelMap ==
    (Cropped(1) /\ crop_top + crop_bottom < SrcW) =>
        LET w == SrcH
            h == SrcW - crop_top - crop_bottom
            from == [xy \in (0..(w - 1)) \X (0..(h - 1))
                        |-> SourcePixel(img[1], xy[1], xy[2])]
        IN  /\ img[1].size = <<w, h>>
            /\ \A xy \in DOMAIN from :
                  from[xy] = <<SrcW - 1 - (xy[2] + crop_top), xy[1]>>
            /\ {from[xy] : xy \in DOMAIN from}
                  = (crop_bottom..(SrcW - crop_top - 1)) \X (0..(SrcH - 1))
            /\ Cardinality(DOMAIN from) = Cardinality({from[xy] : xy \in DOMAIN from})

C10_Witness ==
    /\ pc[1] = "returned"
    /\ inFile.size = <<MaxDim, 2>>
    /\ crop_top = 1 /\ crop_bottom = 0
    /\ SourcePixel(img[1], 0, 0) = <<MaxDim - 2, 0>>
    /\ SourcePixel(img[1], 1, MaxDim - 2) = <<0, 1>>

====
